---- MODULE Spec2Model ----
(***************************************************************************)
(* Model of airbus_app.py: the CSV loader, the get_fuel_qty lookup and the *)
(* Streamlit page (one script run per user interaction).                   *)
(*                                                                         *)
(* Numbers (Roll, Reading, pitch keys) are exact decimals held as integers *)
(* in thousandths: 0.01 is 10, 150.005 is 150005.  Python strings are      *)
(* sequences of one-character strings: "10" is <<"1","0">>.                *)
(***************************************************************************)
EXTENDS Integers, Sequences, FiniteSets, TLC

VARIABLES df_db, stable_ids, empty, sel, opts, qty, total_fuel, last, probe

vars == <<df_db, stable_ids, empty, sel, opts, qty, total_fuel, last, probe>>

----------------------------------------------------------------------------
(* Bounds of the exploration *)

MaxRows == 3

----------------------------------------------------------------------------
(* Numbers *)

\* np.isclose(..., atol=0.01), in thousandths
ATOL == 10

\* np.isclose's default rtol=1e-05, as its inverse
RTOL_INV == 100000

\* .round(2) keeps multiples of 0.01
RollStep == 10

\* .round(1) keeps multiples of 0.1
ReadingStep == 100

Abs(x) == IF x < 0 THEN -x ELSE x

\* one-sided comparison: the absolute value is forgotten
IsCloseOneSided(a, b) == (a - b) - ATOL <= Abs(b) \div RTOL_INV

\* np.isclose(a, b, atol=0.01): |a - b| <= atol + rtol * |b|; on whole
\* thousandths that is |a - b| - atol <= floor(rtol * |b|)
IsClose(a, b) == Abs(a - b) - ATOL <= Abs(b) \div RTOL_INV

\* Series.round(n): nearest multiple of step, ties to the even multiple
RoundTo(x, step) ==
  LET q == x \div step
      r == x % step
  IN  IF 2 * r < step THEN q * step
      ELSE IF 2 * r > step THEN (q + 1) * step
      ELSE IF q % 2 = 0 THEN q * step ELSE (q + 1) * step

----------------------------------------------------------------------------
(* Strings *)

\* the characters used by the tables, in code-point order
Alphabet == << " ", "-", ".", "0", "1", "2", "3", "4", "5", "6", "7", "8", "9",
               "A", "C", "L", "N", "P", "R", "T", "U",
               "a", "e", "f", "g", "h", "i", "n", "r", "t" >>

Ord(c) == CHOOSE i \in 1..Len(Alphabet) : Alphabet[i] = c

Digits == << "0", "1", "2", "3", "4", "5", "6", "7", "8", "9" >>

IsDigit(c) == \E i \in 1..10 : Digits[i] = c

DigitVal(c) == (CHOOSE i \in 1..10 : Digits[i] = c) - 1

Range(s) == { s[i] : i \in 1..Len(s) }

RECURSIVE StrLess(_, _)
\* Python's < on str: lexicographic by code point, a proper prefix is smaller
StrLess(a, b) ==
  IF b = <<>> THEN FALSE
  ELSE IF a = <<>> THEN TRUE
  ELSE IF a[1] = b[1] THEN StrLess(Tail(a), Tail(b))
  ELSE Ord(a[1]) < Ord(b[1])

RECURSIVE LStrip(_)
LStrip(s) == IF s # <<>> /\ s[1] = " " THEN LStrip(Tail(s)) ELSE s

RECURSIVE RStrip(_)
RStrip(s) ==
  IF s # <<>> /\ s[Len(s)] = " " THEN RStrip(SubSeq(s, 1, Len(s) - 1)) ELSE s

\* str.strip()
Strip(s) == RStrip(LStrip(s))

\* str.lower(), one character
LowerChar(c) ==
  CASE c = "A" -> "a" [] c = "C" -> "c" [] c = "L" -> "l" [] c = "N" -> "n"
    [] c = "P" -> "p" [] c = "R" -> "r" [] c = "T" -> "t" [] c = "U" -> "u"
    [] OTHER -> c

Lower(s) == [i \in 1..Len(s) |-> LowerChar(s[i])]

RECURSIVE ReplaceDotZero(_)
\* str.replace('.0', ''): every occurrence, left to right
ReplaceDotZero(s) ==
  IF Len(s) >= 2 /\ s[1] = "." /\ s[2] = "0" THEN ReplaceDotZero(SubSeq(s, 3, Len(s)))
  ELSE IF s = <<>> THEN <<>>
  ELSE <<s[1]>> \o ReplaceDotZero(Tail(s))

RECURSIVE DigitsVal(_)
\* the value of a run of decimal digits
DigitsVal(s) == IF s = <<>> THEN 0 ELSE 10 * DigitsVal(SubSeq(s, 1, Len(s) - 1)) + DigitVal(s[Len(s)])

AllDigits(s) == \A i \in 1..Len(s) : IsDigit(s[i])

\* the unsigned part of a decimal literal: digits, at most one point, one digit at least
IsUnsignedDecimal(u) ==
  \/ u # <<>> /\ AllDigits(u)
  \/ \E p \in 1..Len(u) :
        /\ u[p] = "."
        /\ AllDigits(SubSeq(u, 1, p - 1))
        /\ AllDigits(SubSeq(u, p + 1, Len(u)))
        /\ Len(u) > 1

Unsigned(t) == IF t # <<>> /\ t[1] = "-" THEN Tail(t) ELSE t

\* float(val) succeeds (decimal literals; surrounding blanks are ignored)
IsFloat(s) == IsUnsignedDecimal(Unsigned(Strip(s)))

\* the first three fractional digits, padded with zeros
Frac3(f) == DigitsVal(SubSeq(f \o <<"0", "0", "0">>, 1, 3))

UnsignedVal(u) ==
  IF AllDigits(u) THEN 1000 * DigitsVal(u)
  ELSE LET p == CHOOSE i \in 1..Len(u) : u[i] = "."
       IN  1000 * DigitsVal(SubSeq(u, 1, p - 1)) + Frac3(SubSeq(u, p + 1, Len(u)))

\* float(val), in thousandths
FloatVal(s) ==
  LET t == Strip(s)
  IN  IF t # <<>> /\ t[1] = "-" THEN - UnsignedVal(Tail(t)) ELSE UnsignedVal(t)

----------------------------------------------------------------------------
(* Sorting *)

\* a sort key is a tuple (k, f) or (k, s); a bare str or float is its own key
NumKey(x) == [k |-> 0, f |-> x, s |-> <<>>]

StrKey(x) == [k |-> 1, f |-> 0, s |-> x]

\* Python's < on the keys
KeyLess(x, y) ==
  \/ x.k < y.k
  \/ x.k = y.k /\ x.k = 0 /\ x.f < y.f
  \/ x.k = y.k /\ x.k = 1 /\ StrLess(x.s, y.s)

\* def safe_sort_key(val)
safe_sort_key(val) == IF IsFloat(val) THEN NumKey(FloatVal(val)) ELSE StrKey(val)

RECURSIVE InsertKeyed(_, _)
\* x goes before the first item whose key is greater (stable)
InsertKeyed(s, x) ==
  IF s = <<>> THEN <<x>>
  ELSE IF KeyLess(x.key, s[1].key) THEN <<x>> \o s
  ELSE <<s[1]>> \o InsertKeyed(Tail(s), x)

RECURSIVE SortKeyed(_)
SortKeyed(s) ==
  IF s = <<>> THEN <<>> ELSE InsertKeyed(SortKeyed(SubSeq(s, 1, Len(s) - 1)), s[Len(s)])

Vals(s) == [i \in 1..Len(s) |-> s[i].val]

\* sorted(xs) on a list of str
SortedStr(xs) == Vals(SortKeyed([i \in 1..Len(xs) |-> [key |-> StrKey(xs[i]), val |-> xs[i]]]))

\* sorted(xs) on a list of float
SortedNum(xs) == Vals(SortKeyed([i \in 1..Len(xs) |-> [key |-> NumKey(xs[i]), val |-> xs[i]]]))

\* sorted(xs, key=safe_sort_key)
SortedSafe(xs) == Vals(SortKeyed([i \in 1..Len(xs) |-> [key |-> safe_sort_key(xs[i]), val |-> xs[i]]]))

RECURSIVE Unique(_)
\* Series.unique(): distinct values in order of first appearance
Unique(s) ==
  IF s = <<>> THEN <<>>
  ELSE LET u == Unique(SubSeq(s, 1, Len(s) - 1))
           x == s[Len(s)]
       IN  IF x \in Range(u) THEN u ELSE Append(u, x)

----------------------------------------------------------------------------
(* The table *)

Left == <<"L", "e", "f", "t">>

Right == <<"R", "i", "g", "h", "t">>

Center == <<"C", "e", "n", "t", "e", "r">>

ACT == <<"A", "C", "T">>

Nan == <<"n", "a", "n">>

Row(t, m, p, roll, reading, q) ==
  [Tank |-> t, MLI |-> m, Pitch |-> p, Roll |-> roll, Reading |-> reading, Qty |-> q]

\* lines of Airbus_Fuel_Data.csv a table is drawn from, in file order
CsvPool == <<
  Row(Left,            <<"2">>,           <<"0", ".", "0">>,      4,     150040, 2400),
  Row(Left,            <<"2">>,           <<"0", ".", "0">>,      6,     150000, 2500),
  Row(<<" ">> \o Left, <<"1", "0">>,      <<"-", "1">>,           0,     150200, 2600),
  Row(Left,            <<"2">>,           <<"0">>,                -1000, 150000, 1200),
  Row(Left,            <<"2">>,           <<"U", "P">>,           20,    149990, 1300),
  Row(Left,            <<"2">>,           <<"0">>,                0,     20000,  700),
  Row(Center,          <<"1", "0", " ">>, <<"-", "2", ".", "0">>, 0,     20000,  500),
  Row(Center,          <<"1", "0">>,      <<"-", "2", ".", "0">>, 0,     20110,  600),
  Row(Center,          <<"1", "0">>,      <<"-", "1">>,           0,     20100,  650),
  Row(Center,          <<"1", "0">>,      <<"0">>,                0,     20100,  0),
  Row(ACT,             <<"1">>,           <<" ", "0">>,           -996,  10000,  300),
  Row(Right,           <<"N", "a", "N">>, <<"0">>,                0,     0,      0)
>>

\* a CSV file: at most MaxRows lines of the pool, in file order
PickRows(S) == SelectSeq([i \in 1..Len(CsvPool) |-> IF i \in S THEN <<CsvPool[i]>> ELSE <<>>],
                         LAMBDA x : x # <<>>)

CsvFiles == { [i \in 1..Len(PickRows(S)) |-> PickRows(S)[i][1]] :
                S \in { T \in SUBSET (1..Len(CsvPool)) : Cardinality(T) <= MaxRows } }

\* pd.to_numeric(...).round(n) on Roll and Reading
CleanNumbers(r) == [r EXCEPT !.Roll = RoundTo(r.Roll, RollStep), !.Reading = RoundTo(r.Reading, ReadingStep)]

\* astype(str).str.strip() on MLI, Pitch and Tank
CleanStrings(r) == [r EXCEPT !.MLI = Strip(r.MLI), !.Pitch = Strip(r.Pitch), !.Tank = Strip(r.Tank)]

\* db[db[col].str.lower() != 'nan'] for the three columns
NotNan(r) == Lower(r.MLI) # Nan /\ Lower(r.Pitch) # Nan /\ Lower(r.Tank) # Nan

\* def load_data()
load_data(csv) ==
  SelectSeq([i \in 1..Len(csv) |-> CleanStrings(CleanNumbers(csv[i]))], NotNan)

----------------------------------------------------------------------------
(* The lookup *)

None == [found |-> FALSE, qty |-> 0]

\* an assignment statement: the value of v, computed once, is what F is given
Bind(v, F(_)) == CHOOSE y \in { F(x) : x \in {v} } : TRUE

\* subset = df_db[(Tank == tank) & (MLI == mli) & (Pitch == pitch) & isclose(Roll, roll)]
Subset(mli, pitch, roll, tank) ==
  SelectSeq(df_db, LAMBDA r : r.Tank = tank /\ r.MLI = mli /\ r.Pitch = pitch /\ IsClose(r.Roll, roll))

\* exact = subset[isclose(subset['Reading'], reading)]
Exact(subset, reading) == SelectSeq(subset, LAMBDA r : IsClose(r.Reading, reading))

\* def get_fuel_qty(mli, pitch, roll, reading, tank)
get_fuel_qty(mli, pitch, roll, reading, tank) ==
  Bind(Exact(Subset(mli, pitch, roll, tank), reading), LAMBDA exact :
    IF exact # <<>> THEN [found |-> TRUE, qty |-> exact[1].Qty] ELSE None)

----------------------------------------------------------------------------
(* The page: one call of render_mli_input *)

Keys == {"left", "right", "center", "act"}

\* the tank_name each call of render_mli_input passes for its key
TankOf(key) ==
  CASE key = "left" -> Left [] key = "right" -> Right [] key = "center" -> Center [] OTHER -> ACT

\* Python's None where a str is expected
NoneStr == <<"None">>

Col(rows, name) == [i \in 1..Len(rows) |-> rows[i][name]]

\* the tank filter is forgotten
TankDataNoFilter(tank_name) == df_db

\* tank_data = df_db[df_db['Tank'] == tank_name]
TankData(tank_name) == SelectSeq(df_db, LAMBDA r : r.Tank = tank_name)

\* the MLI filter is applied to the whole table
MliScopeOfTable(tank_data, mli_val) == SelectSeq(df_db, LAMBDA r : r.MLI = mli_val)

\* mli_scope = tank_data[tank_data['MLI'] == mli_val]
MliScope(tank_data, mli_val) == SelectSeq(tank_data, LAMBDA r : r.MLI = mli_val)

\* pitch_scope = mli_scope[mli_scope['Pitch'] == pitch_val]
PitchScope(mli_scope, pitch_val) == SelectSeq(mli_scope, LAMBDA r : r.Pitch = pitch_val)

\* the roll filter is forgotten
FinalScopeAnyRoll(pitch_scope, roll_val) == pitch_scope

\* final_scope = pitch_scope[np.isclose(pitch_scope['Roll'], roll_val, atol=0.01)]
FinalScope(pitch_scope, roll_val) == SelectSeq(pitch_scope, LAMBDA r : IsClose(r.Roll, roll_val))

\* str(p).replace('.0','').strip() == "0"
NormalizesToZero(p) == Strip(ReplaceDotZero(p)) = <<"0">>

\* the first option, whatever the options are
DefaultPitchIndexFirst(valid_pitches) == 0

\* p_index: the last option that normalizes to "0", else 0
DefaultPitchIndex(valid_pitches) ==
  LET hits == { i \in 1..Len(valid_pitches) : NormalizesToZero(valid_pitches[i]) }
  IN  IF hits = {} THEN 0 ELSE (CHOOSE i \in hits : \A j \in hits : j <= i) - 1

\* r_index: where 0.0 is in valid_rolls, else 0
DefaultRollIndex(valid_rolls) ==
  LET hits == { i \in 1..Len(valid_rolls) : valid_rolls[i] = 0 }
  IN  IF hits = {} THEN 0 ELSE (CHOOSE i \in hits : \A j \in hits : i <= j) - 1

\* len(valid_rolls) > 1 or (len(valid_rolls)==1 and valid_rolls[0] != 0)
RollOffered(valid_rolls) ==
  Len(valid_rolls) > 1 \/ (Len(valid_rolls) = 1 /\ valid_rolls[1] # 0)

\* st.selectbox(label, options, index, key): the widget keeps the value it had
\* when it was drawn by the previous run and the value is still an option;
\* a framework that derives the widget's identity from its options forgets
\* the value when the options change
Selectbox(options, index, cur, had, same, none) ==
  IF options = <<>> THEN none
  ELSE IF had /\ cur \in Range(options) /\ (stable_ids \/ same) THEN cur
  ELSE options[index + 1]

\* st.session_state[f"{key}_qty"] = qty if qty is not None else 0
StoredQty(res) == IF res.found THEN res.qty ELSE 0

\* st.success(...) or st.error("Not Found")
Message(res) == IF res.found THEN "success" ELSE "Not Found"

\* the checked box leaves the quantity as it was
EmptyQtyStale(old) == old

\* if st.checkbox(f"{label} Empty", ...): st.session_state[f"{key}_qty"] = 0
EmptyQty(old) == 0

NoSel == [mli |-> NoneStr, pitch |-> NoneStr, roll |-> 0, read |-> 0]

NoOpts == [drawn |-> FALSE, msg |-> "0 KG", mlis |-> <<>>, pitches |-> <<>>, rolls |-> <<>>,
           roll_offered |-> FALSE, readings |-> <<>>]

\* def render_mli_input(label, key, tank_name), after the Empty checkbox
RenderSelectors(tank_name, w, prev) ==
  Bind(TankData(tank_name), LAMBDA tank_data :
  Bind(SortedStr(Unique(Col(tank_data, "MLI"))), LAMBDA valid_mlis :
  Bind(Selectbox(valid_mlis, 0, w.mli, prev.drawn, valid_mlis = prev.mlis, NoneStr),
       LAMBDA mli_val :
  Bind(MliScope(tank_data, mli_val), LAMBDA mli_scope :
  Bind(SortedSafe(Unique(Col(mli_scope, "Pitch"))), LAMBDA valid_pitches :
  Bind(Selectbox(valid_pitches, DefaultPitchIndex(valid_pitches), w.pitch, prev.drawn,
                 valid_pitches = prev.pitches, NoneStr),
       LAMBDA pitch_val :
  Bind(PitchScope(mli_scope, pitch_val), LAMBDA pitch_scope :
  Bind(SortedNum(Unique(Col(pitch_scope, "Roll"))), LAMBDA valid_rolls :
  Bind(IF RollOffered(valid_rolls)
       THEN Selectbox(valid_rolls, DefaultRollIndex(valid_rolls), w.roll,
                      prev.roll_offered, valid_rolls = prev.rolls, 0)
       ELSE 0,
       LAMBDA roll_val :
  Bind(SortedNum(Unique(Col(FinalScope(pitch_scope, roll_val), "Reading"))),
       LAMBDA valid_readings :
  Bind(IF valid_readings = <<>> THEN 0
       ELSE Selectbox(valid_readings, 0, w.read, prev.readings # <<>>,
                      valid_readings = prev.readings, 0),
       LAMBDA reading_val :
  Bind(get_fuel_qty(mli_val, pitch_val, roll_val, reading_val, tank_name), LAMBDA res :
    [sel  |-> [mli |-> mli_val, pitch |-> pitch_val, roll |-> roll_val, read |-> reading_val],
     opts |-> [drawn |-> TRUE, msg |-> Message(res), mlis |-> valid_mlis,
               pitches |-> valid_pitches, rolls |-> valid_rolls,
               roll_offered |-> RollOffered(valid_rolls), readings |-> valid_readings],
     qty  |-> StoredQty(res)]))))))))))))

\* def render_mli_input(label, key, tank_name)
render_mli_input(key, tank_name, e, w, prev, old) ==
  IF e THEN [sel |-> NoSel, opts |-> NoOpts, qty |-> EmptyQty(old)]
  ELSE RenderSelectors(tank_name, w, prev)

\* not df_db[df_db['Tank']=='ACT'].empty
HasACT == TankData(ACT) # <<>>

\* the tanks whose inputs a run draws
Rendered == IF HasACT THEN Keys ELSE Keys \ {"act"}

\* with t1/t3/t2: what one call leaves, or nothing when the call is not made
Call(k, e, w, q0) ==
  IF k \in Rendered THEN render_mli_input(k, TankOf(k), e[k], w[k], opts[k], q0[k])
  ELSE [sel |-> NoSel, opts |-> [NoOpts EXCEPT !.msg = "absent"], qty |-> q0[k]]

\* one run of the script from the session state q0 and the widget values (e, w)
Run(e, w, q0) ==
  [left |-> Call("left", e, w, q0), right |-> Call("right", e, w, q0),
   center |-> Call("center", e, w, q0), act |-> Call("act", e, w, q0)]

\* total_fuel = left_qty + center_qty + right_qty + act_qty
TotalFuel(q) == q.left + q.center + q.right + q.act

NoProbe == [called |-> FALSE, mli |-> NoneStr, pitch |-> NoneStr, roll |-> 0, reading |-> 0,
            tank |-> NoneStr, subset |-> <<>>, res |-> None]

Zero == [left |-> 0, right |-> 0, center |-> 0, act |-> 0]

\* the page after the run r
Shown(e, run, op, key) ==
  \E r \in {run} :
     /\ empty' = e
     /\ sel' = [left |-> r.left.sel, right |-> r.right.sel, center |-> r.center.sel, act |-> r.act.sel]
     /\ opts' = [left |-> r.left.opts, right |-> r.right.opts, center |-> r.center.opts, act |-> r.act.opts]
     /\ qty' = [left |-> r.left.qty, right |-> r.right.qty, center |-> r.center.qty, act |-> r.act.qty]
     /\ total_fuel' = TotalFuel([left |-> r.left.qty, right |-> r.right.qty,
                                 center |-> r.center.qty, act |-> r.act.qty])
     /\ last' = [op |-> op, key |-> key]
     /\ UNCHANGED <<df_db, stable_ids, probe>>

\* the first run: the table is loaded, the four quantities are 0, every Empty box is checked
Init ==
  /\ df_db \in { load_data(csv) : csv \in CsvFiles }
  /\ stable_ids \in BOOLEAN
  /\ empty = [left |-> TRUE, right |-> TRUE, center |-> TRUE, act |-> TRUE]
  /\ sel = [left |-> NoSel, right |-> NoSel, center |-> NoSel, act |-> NoSel]
  /\ opts = [left |-> NoOpts, right |-> NoOpts, center |-> NoOpts, act |-> NoOpts]
  /\ qty = Zero
  /\ total_fuel = 0
  /\ last = [op |-> "start", key |-> "none"]
  /\ probe = NoProbe

\* the user flips the Empty checkbox of a tank
ToggleEmpty(key) ==
  /\ key \in Rendered
  /\ LET e == [empty EXCEPT ![key] = ~ empty[key]]
     IN  Shown(e, Run(e, sel, qty), "empty", key)

\* the user picks another MLI number
SelectMLI(key, v) ==
  /\ ~ empty[key]
  /\ v \in Range(opts[key].mlis)
  /\ v # sel[key].mli
  /\ Shown(empty, Run(empty, [sel EXCEPT ![key].mli = v], qty), "mli", key)

\* the user picks another pitch
SelectPitch(key, v) ==
  /\ ~ empty[key]
  /\ v \in Range(opts[key].pitches)
  /\ v # sel[key].pitch
  /\ Shown(empty, Run(empty, [sel EXCEPT ![key].pitch = v], qty), "pitch", key)

\* the user picks another roll
SelectRoll(key, v) ==
  /\ ~ empty[key]
  /\ opts[key].roll_offered
  /\ v \in Range(opts[key].rolls)
  /\ v # sel[key].roll
  /\ Shown(empty, Run(empty, [sel EXCEPT ![key].roll = v], qty), "roll", key)

\* the user picks another reading
SelectReading(key, v) ==
  /\ ~ empty[key]
  /\ v \in Range(opts[key].readings)
  /\ v # sel[key].read
  /\ Shown(empty, Run(empty, [sel EXCEPT ![key].read = v], qty), "read", key)

\* if st.button("Reset All"): the four quantities are set to 0, then st.rerun()
ResetAll == Shown(empty, Run(empty, sel, Zero), "reset", "none")

Next ==
  \/ \E key \in Keys : ToggleEmpty(key)
  \/ \E key \in Keys : \E v \in Range(opts[key].mlis) : SelectMLI(key, v)
  \/ \E key \in Keys : \E v \in Range(opts[key].pitches) : SelectPitch(key, v)
  \/ \E key \in Keys : \E v \in Range(opts[key].rolls) : SelectRoll(key, v)
  \/ \E key \in Keys : \E v \in Range(opts[key].readings) : SelectReading(key, v)
  \/ ResetAll

Spec == Init /\ [][Next]_vars

----------------------------------------------------------------------------
(* get_fuel_qty called on its own *)

RollOffsets == {-20, -10, -4, 0, 4, 10, 20}

ReadOffsets == {-200, -11, -5, 0, 5, 11, 200}

\* one call of get_fuel_qty, with the rows its first filter keeps; the function
\* keeps nothing between calls, so a behaviour makes one call
Query(mli, pitch, roll, reading, tank) ==
  /\ ~ probe.called
  /\ probe' = [called |-> TRUE, mli |-> mli, pitch |-> pitch, roll |-> roll, reading |-> reading,
               tank |-> tank, subset |-> Subset(mli, pitch, roll, tank),
               res |-> get_fuel_qty(mli, pitch, roll, reading, tank)]
  /\ UNCHANGED <<df_db, stable_ids, empty, sel, opts, qty, total_fuel, last>>

\* the call with a row's own values
QueryRow(i) ==
  LET r == df_db[i] IN Query(r.MLI, r.Pitch, r.Roll, r.Reading, r.Tank)

\* the call with a roll and a reading near a row's
QueryNear(i, droll, dread) ==
  LET r == df_db[i]
  IN  /\ <<droll, dread>> # <<0, 0>>
      /\ Query(r.MLI, r.Pitch, r.Roll + droll, r.Reading + dread, r.Tank)

\* the call with a row's values and another row's tank, MLI or pitch
QueryMixed(i, j) ==
  LET r == df_db[i]
      o == df_db[j]
  IN  /\ <<o.Tank, o.MLI, o.Pitch>> # <<r.Tank, r.MLI, r.Pitch>>
      /\ Query(o.MLI, o.Pitch, r.Roll, r.Reading, o.Tank)

LookupNext ==
  \/ \E i \in 1..Len(df_db) : QueryRow(i)
  \/ \E i \in 1..Len(df_db) : \E droll \in RollOffsets : \E dread \in ReadOffsets :
        QueryNear(i, droll, dread)
  \/ \E i \in 1..Len(df_db) : \E j \in 1..Len(df_db) : QueryMixed(i, j)

LookupSpec == Init /\ [][LookupNext]_vars

----------------------------------------------------------------------------
(* Properties of get_fuel_qty, under LookupSpec *)

\* C1: in a table with no two rows of the same (Tank, MLI, Pitch, Roll,
\* Reading), the call with a row's own five values returns that row's Qty.
C1_RoundTrip ==
  LET KeyOf(r) == <<r.Tank, r.MLI, r.Pitch, r.Roll, r.Reading>>
      WellFormed == \A i, j \in 1..Len(df_db) : i # j => KeyOf(df_db[i]) # KeyOf(df_db[j])
  IN  (probe.called /\ WellFormed) =>
        \A r \in Range(df_db) :
           KeyOf(r) = <<probe.tank, probe.mli, probe.pitch, probe.roll, probe.reading>>
             => probe.res = [found |-> TRUE, qty |-> r.Qty]

\* C2: when every row matching the tank, MLI, pitch and roll of the call has a
\* Reading more than 0.01 away from the requested reading, the call returns
\* None, whatever the magnitude of the reading.
C2_OutsideTolerance ==
  probe.called =>
    ((\A r \in Range(df_db) :
         (/\ r.Tank = probe.tank /\ r.MLI = probe.mli /\ r.Pitch = probe.pitch
          /\ Abs(r.Roll - probe.roll) <= ATOL)
            => Abs(r.Reading - probe.reading) > ATOL)
       => ~ probe.res.found)

\* C3: a row of the requested tank, MLI and pitch passes the roll filter
\* exactly when its Roll and the requested roll differ by at most 0.01,
\* whichever of the two is the larger: stored 0.0 is matched by 0.0, 0.004 and
\* -0.004 and not by 0.02 or -0.02, and the same with the two values swapped.
C3_RollTolerance ==
  probe.called =>
    \A r \in Range(df_db) :
       (r.Tank = probe.tank /\ r.MLI = probe.mli /\ r.Pitch = probe.pitch)
         => ((r \in Range(probe.subset)) <=> Abs(r.Roll - probe.roll) <= ATOL)

\* a stored Roll of 0.0 matched by a requested 0.004 or -0.004
C3_Witness ==
  /\ probe.called
  /\ probe.roll \in {4, -4}
  /\ \E r \in Range(probe.subset) : r.Roll = 0

----------------------------------------------------------------------------
(* Properties of the page, under Spec *)

\* C4: on the page shown after 'Reset All' the four quantities and the total
\* fuel on board are 0.
C4_ResetZero ==
  last.op = "reset" => (qty = Zero /\ total_fuel = 0)

\* C5: what each selector offers is among the values its column has in the
\* rows kept by the filters chosen before it, hence among the values of the
\* column in the tank's rows and in the whole table.
C5_CascadeSubset ==
  \A k \in Keys :
     opts[k].drawn =>
       LET inTable == Range(df_db)
           inTank  == { r \in inTable : r.Tank = TankOf(k) }
           inMli   == { r \in inTank : r.MLI = sel[k].mli }
           inPitch == { r \in inMli : r.Pitch = sel[k].pitch }
           inRoll  == { r \in inPitch : Abs(r.Roll - sel[k].roll) <= ATOL }
       IN  /\ Range(opts[k].mlis) \subseteq { r.MLI : r \in inTank }
           /\ Range(opts[k].pitches) \subseteq { r.Pitch : r \in inMli }
           /\ Range(opts[k].rolls) \subseteq { r.Roll : r \in inPitch }
           /\ Range(opts[k].readings) \subseteq { r.Reading : r \in inRoll }
           /\ Range(opts[k].readings) \subseteq { r.Reading : r \in inTable }

\* a tank whose pitch selector offers fewer pitches than the tank's rows have
C5_Witness ==
  \E k \in Keys :
     /\ opts[k].drawn
     /\ opts[k].readings # <<>>
     /\ Cardinality(Range(opts[k].pitches))
          < Cardinality({ r.Pitch : r \in { x \in Range(df_db) : x.Tank = TankOf(k) } })

\* C6: for a tank with no row in the table the four selectors have nothing
\* to offer, the lookup is not found and the tank's quantity is 0.
C6_NoRows ==
  \A k \in Keys :
     (opts[k].drawn /\ \A r \in Range(df_db) : r.Tank # TankOf(k)) =>
        /\ opts[k].mlis = <<>>
        /\ opts[k].pitches = <<>>
        /\ opts[k].rolls = <<>>
        /\ opts[k].readings = <<>>
        /\ opts[k].msg = "Not Found"
        /\ qty[k] = 0

\* the inputs of a tank without rows are drawn while the table has rows
C6_Witness ==
  \E k \in Keys :
     /\ opts[k].drawn
     /\ df_db # <<>>
     /\ \A r \in Range(df_db) : r.Tank # TankOf(k)

\* C7: every selector offers distinct values, numbers in ascending numeric
\* order before the values that are not numbers, those in lexicographic order.
C7_SelectorOrder ==
  LET Before(a, b) ==
        IF IsFloat(a) /\ IsFloat(b) THEN FloatVal(a) < FloatVal(b)
        ELSE IF IsFloat(a) THEN TRUE
        ELSE IF IsFloat(b) THEN FALSE
        ELSE StrLess(a, b)
      StrOrdered(s) == \A i, j \in 1..Len(s) : i < j => (s[i] # s[j] /\ ~ Before(s[j], s[i]))
      NumOrdered(s) == \A i, j \in 1..Len(s) : i < j => s[i] < s[j]
  IN  \A k \in Keys :
         opts[k].drawn =>
           /\ StrOrdered(opts[k].mlis)
           /\ StrOrdered(opts[k].pitches)
           /\ NumOrdered(opts[k].rolls)
           /\ NumOrdered(opts[k].readings)

\* C8: after every run the quantity of each tank whose inputs are drawn is 0
\* when its Empty box is checked, and otherwise what get_fuel_qty gives for the
\* values its selectors hold now, 0 when that is None.
C8_QtyFromWidgets ==
  \A k \in Rendered :
     /\ empty[k] => qty[k] = 0
     /\ ~ empty[k] =>
          LET res == get_fuel_qty(sel[k].mli, sel[k].pitch, sel[k].roll, sel[k].read, TankOf(k))
          IN  /\ qty[k] = IF res.found THEN res.qty ELSE 0
              /\ opts[k].msg = IF res.found THEN "success" ELSE "Not Found"

\* a tank that has been given a quantity is marked empty again
C8_Witness ==
  /\ last.op = "empty"
  /\ empty[last.key]
  /\ \E r \in Range(df_db) : r.Tank = TankOf(last.key) /\ r.Qty > 0
  /\ \E k \in Keys : ~ empty[k] /\ qty[k] > 0

\* C9: the selectors of a tank whose Empty box has just been unchecked hold
\* the defaults: a pitch that normalizes to "0" when one is offered, else the
\* first pitch; the roll 0.0 when it is offered, else the first roll; and with
\* no roll other than 0.0 the roll is not offered and is 0.0.
C9_Defaults ==
  \A k \in Keys :
     /\ (opts[k].drawn /\ Range(opts[k].rolls) \subseteq {0})
          => (~ opts[k].roll_offered /\ sel[k].roll = 0)
     /\ (last.op = "empty" /\ last.key = k /\ ~ empty[k]) =>
          LET zeros == { p \in Range(opts[k].pitches) : NormalizesToZero(p) }
          IN  /\ opts[k].pitches # <<>> =>
                   IF zeros # {} THEN sel[k].pitch \in zeros
                   ELSE sel[k].pitch = opts[k].pitches[1]
              /\ opts[k].roll_offered =>
                   IF 0 \in Range(opts[k].rolls) THEN sel[k].roll = 0
                   ELSE sel[k].roll = opts[k].rolls[1]

\* a fresh pitch selector whose first option does not normalize to "0" while
\* another one does
C9_Witness ==
  \E k \in Keys :
     /\ last.op = "empty" /\ last.key = k /\ ~ empty[k]
     /\ Len(opts[k].pitches) > 1
     /\ ~ NormalizesToZero(opts[k].pitches[1])
     /\ NormalizesToZero(sel[k].pitch)

\* C10: whenever the reading selector of a tank has an option, the lookup
\* with the selected values is found, and the tank's quantity is the Qty of a
\* row of that tank, MLI and pitch whose Roll and Reading are within 0.01 of
\* the selected roll and reading.
C10_CascadeResolves ==
  \A k \in Keys :
     (opts[k].drawn /\ opts[k].readings # <<>>) =>
        /\ opts[k].msg = "success"
        /\ \E r \in Range(df_db) :
              /\ r.Tank = TankOf(k) /\ r.MLI = sel[k].mli /\ r.Pitch = sel[k].pitch
              /\ Abs(r.Roll - sel[k].roll) <= ATOL
              /\ Abs(r.Reading - sel[k].read) <= ATOL
              /\ r.Qty = qty[k]

\* the user has picked a roll and the quantity comes from a row with another Roll
C10_Witness ==
  \E k \in Keys :
     /\ last.op = "roll" /\ last.key = k
     /\ opts[k].readings # <<>>
     /\ \A r \in Range(df_db) : r.Qty = qty[k] => r.Roll # sel[k].roll

====
